---- MODULE Spec2Model ----
(***************************************************************************)
(* Model of the ChatbotRag application: the Streamlit front end            *)
(* (src/main.py), the RAG pipeline set-up (src/rag.py) and the history     *)
(* persistence helpers (src/utils.py).                                     *)
(*                                                                         *)
(* A text (a Python str, a file's content, a corpus line) is a sequence of *)
(* characters; a character is a one-element TLA+ string.  A run of         *)
(* ordinary letters that no operation looks into ("caption_latin",         *)
(* "Non spécifié") is written as one character of that sequence.           *)
(*                                                                         *)
(* A Python value is a record [t |-> type tag, v |-> payload]:             *)
(*   "str"   v = the characters          "int"  v = the decimal digits     *)
(*   "list"  v = the items               "tuple" v = the items             *)
(*   "dict"  v = the <<key, value>> items in insertion order               *)
(*   "none"  v = <<>>                    "bool" v = <<"true">> / <<"false">>*)
(*   "object" v = what the object holds (a Chroma index, a chain)          *)
(***************************************************************************)
EXTENDS Integers, Sequences, FiniteSets, TLC

VARIABLES
    session_state,    \* st.session_state: a function from the keys present to Python values
    history_file,     \* HISTORY_FILE on disk: [exists, text]
    json_file,        \* JSON_FILE on disk (the corpus): [exists, lines]
    chroma_dir,       \* CHROMA_DIR on disk: [state, docs]
    rerun_pending,    \* st.rerun() was called: the script runs again before any new input
    widgets,          \* the buttons the last run rendered: "reset", "form"
    run_input,        \* what the user did to start the last run
    run_outcome,      \* what the last run of main() showed or did last
    builds,           \* number of Chroma.from_texts calls so far
    rag_init,         \* the last run's initialize_rag_system: the branch taken, the documents served
    generator_calls,  \* number of rag_chain.invoke calls of the last run
    last_call,        \* question, chat_history and outcome of the call of the last run
    pc,               \* position of the stepwise specifications (SpecLoader, SpecHistory)
    line_no,          \* SpecLoader: number of corpus lines consumed by the for loop
    texts,            \* SpecLoader: the list load_texts has built so far
    h_saved,          \* SpecHistory: the history handed to save_history
    h_loaded          \* SpecHistory: what load_history returned

vars == <<session_state, history_file, json_file, chroma_dir, rerun_pending,
          widgets, run_input, run_outcome, builds, rag_init, generator_calls, last_call,
          pc, line_no, texts, h_saved, h_loaded>>

-----------------------------------------------------------------------------
(* Python values *)

PyStr(s) == [t |-> "str", v |-> s]
PyInt(ds) == [t |-> "int", v |-> ds]
PyList(xs) == [t |-> "list", v |-> xs]
PyTuple(xs) == [t |-> "tuple", v |-> xs]
PyDict(items) == [t |-> "dict", v |-> items]
PyNone == [t |-> "none", v |-> <<>>]
PyObject(held) == [t |-> "object", v |-> held]
PyBool(b) == [t |-> "bool", v |-> IF b THEN <<"true">> ELSE <<"false">>]

\* a sequence of texts joined by a separator text: sep.join(parts)
RECURSIVE JoinTexts(_, _)
JoinTexts(parts, sep) ==
    IF Len(parts) = 0 THEN <<>>
    ELSE IF Len(parts) = 1 THEN parts[1]
    ELSE parts[1] \o sep \o JoinTexts(Tail(parts), sep)

\* bool(x): the truth value Python's "if x" and "not x" use
Truthy(x) ==
    CASE x.t = "none" -> FALSE
      [] x.t = "bool" -> x.v = <<"true">>
      [] x.t = "int" -> \E i \in 1..Len(x.v) : x.v[i] # "0"
      [] x.t = "object" -> TRUE
      [] OTHER -> Len(x.v) > 0

\* iter(x): the items a for loop, an unpacking or str.join draws from x;
\* ok is FALSE where Python raises TypeError (None, int, bool are not iterable)
Iterate(x) ==
    CASE x.t \in {"list", "tuple"} -> [ok |-> TRUE, items |-> x.v]
      [] x.t = "str" -> [ok |-> TRUE, items |-> [i \in 1..Len(x.v) |-> PyStr(<<x.v[i]>>)]]
      [] x.t = "dict" -> [ok |-> TRUE, items |-> [i \in 1..Len(x.v) |-> x.v[i][1]]]
      [] OTHER -> [ok |-> FALSE, items |-> <<>>]

\* "(q, a) = x" succeeds: x is iterable and yields exactly two items
Unpacks2(x) == Iterate(x).ok /\ Len(Iterate(x).items) = 2

\* x[:n] and len(x) succeed: x is a str, a list or a tuple
Sliceable(x) == x.t \in {"str", "list", "tuple"}

\* d.get(key, default) on a dict d, key being a run of letters: the value of
\* the last item with that key
DictGet(d, key, default) ==
    LET hits == {i \in 1..Len(d.v) : d.v[i][1] = PyStr(<<key>>)}
    IN  IF hits = {} THEN default
        ELSE d.v[CHOOSE i \in hits : \A j \in hits : j <= i][2]

-----------------------------------------------------------------------------
(* json.dump(obj, f, indent=2, ensure_ascii=False) *)

Indent == <<" ", " ">>

RECURSIVE Spaces(_)
Spaces(level) == IF level = 0 THEN <<>> ELSE Indent \o Spaces(level - 1)

\* one character of a str as json writes it inside quotes when ensure_ascii
\* is False: only the quote, the backslash and control characters are escaped
EscapeChar(c) ==
    CASE c = "\"" -> <<"\\", "\"">>
      [] c = "\\" -> <<"\\", "\\">>
      [] c = "\n" -> <<"\\", "n">>
      [] c = "\t" -> <<"\\", "t">>
      [] c = "\r" -> <<"\\", "r">>
      [] OTHER -> <<c>>

RECURSIVE EscapeText(_)
EscapeText(s) == IF Len(s) = 0 THEN <<>> ELSE EscapeChar(s[1]) \o EscapeText(Tail(s))

QuoteText(s) == <<"\"">> \o EscapeText(s) \o <<"\"">>

RECURSIVE JsonDumps(_, _)
RECURSIVE DumpItems(_, _, _)
\* the items of a list (or the key: value members of a dict), each on a line
\* of its own at the given level, separated by commas
DumpItems(x, i, level) ==
    LET item == IF x.t = "dict"
                THEN QuoteText(x.v[i][1].v) \o <<":", " ">> \o JsonDumps(x.v[i][2], level)
                ELSE JsonDumps(x.v[i], level)
    IN  <<"\n">> \o Spaces(level) \o item
        \o (IF i < Len(x.v) THEN <<",">> \o DumpItems(x, i + 1, level) ELSE <<>>)

JsonDumps(x, level) ==
    CASE x.t = "str" -> QuoteText(x.v)
      [] x.t = "int" -> x.v
      [] x.t = "none" -> <<"n", "u", "l", "l">>
      [] x.t = "bool" -> IF x.v = <<"true">> THEN <<"t", "r", "u", "e">>
                         ELSE <<"f", "a", "l", "s", "e">>
      [] x.t \in {"list", "tuple"} ->
            IF Len(x.v) = 0 THEN <<"[", "]">>
            ELSE <<"[">> \o DumpItems(x, 1, level + 1) \o <<"\n">> \o Spaces(level) \o <<"]">>
      [] x.t = "dict" ->
            IF Len(x.v) = 0 THEN <<"{", "}">>
            ELSE <<"{">> \o DumpItems(x, 1, level + 1) \o <<"\n">> \o Spaces(level) \o <<"}">>

-----------------------------------------------------------------------------
(* json.load / json.loads *)

Whitespace == {" ", "\n", "\t", "\r"}
Digits == {"0", "1", "2", "3", "4", "5", "6", "7", "8", "9"}

Fail == [ok |-> FALSE, val |-> PyNone, pos |-> 0]
Done(val, pos) == [ok |-> TRUE, val |-> val, pos |-> pos]

RECURSIVE SkipWs(_, _)
SkipWs(txt, i) == IF i <= Len(txt) /\ txt[i] \in Whitespace THEN SkipWs(txt, i + 1) ELSE i

\* txt holds the characters of word from position i on
Matches(txt, i, word) ==
    /\ i + Len(word) - 1 <= Len(txt)
    /\ \A k \in 1..Len(word) : txt[i + k - 1] = word[k]

Unescape(c) ==
    CASE c = "n" -> "\n"
      [] c = "t" -> "\t"
      [] c = "r" -> "\r"
      [] OTHER -> c

\* the rest of a string literal, from position i (after the opening quote)
RECURSIVE ParseString(_, _, _)
ParseString(txt, i, acc) ==
    IF i > Len(txt) THEN Fail
    ELSE IF txt[i] = "\"" THEN Done(PyStr(acc), i + 1)
    ELSE IF txt[i] = "\\" THEN
        IF i + 1 <= Len(txt) /\ txt[i + 1] \in {"\"", "\\", "/", "n", "t", "r"}
        THEN ParseString(txt, i + 2, Append(acc, Unescape(txt[i + 1])))
        ELSE Fail
    ELSE IF txt[i] \in {"\n", "\t", "\r"} THEN Fail
    ELSE ParseString(txt, i + 1, Append(acc, txt[i]))

RECURSIVE ParseDigits(_, _, _)
ParseDigits(txt, i, acc) ==
    IF i <= Len(txt) /\ txt[i] \in Digits THEN ParseDigits(txt, i + 1, Append(acc, txt[i]))
    ELSE Done(PyInt(acc), i)

RECURSIVE ParseValue(_, _)
RECURSIVE ParseItems(_, _, _)
RECURSIVE ParseMembers(_, _, _)

\* the items of an array after "[" or after a comma
ParseItems(txt, i, acc) ==
    LET after(item, j) ==
            IF ~item.ok \/ j > Len(txt) THEN Fail
            ELSE IF txt[j] = "," THEN ParseItems(txt, j + 1, Append(acc, item.val))
            ELSE IF txt[j] = "]" THEN Done(PyList(Append(acc, item.val)), j + 1)
            ELSE Fail
        skip(item) == after(item, SkipWs(txt, item.pos))
    IN  skip(ParseValue(txt, SkipWs(txt, i)))

\* the members of an object after "{" or after a comma
ParseMembers(txt, i, acc) ==
    LET after(key, val, j) ==
            IF ~val.ok \/ j > Len(txt) THEN Fail
            ELSE IF txt[j] = "," THEN ParseMembers(txt, j + 1, Append(acc, <<key.val, val.val>>))
            ELSE IF txt[j] = "}" THEN Done(PyDict(Append(acc, <<key.val, val.val>>)), j + 1)
            ELSE Fail
        skip(key, val) == after(key, val, SkipWs(txt, val.pos))
        colon(key, c) ==
            IF key.ok /\ c <= Len(txt) /\ txt[c] = ":"
            THEN skip(key, ParseValue(txt, SkipWs(txt, c + 1)))
            ELSE Fail
        name(key) == colon(key, SkipWs(txt, key.pos))
        open(k) == IF k <= Len(txt) /\ txt[k] = "\"" THEN name(ParseString(txt, k + 1, <<>>))
                   ELSE Fail
    IN  open(SkipWs(txt, i))

\* one JSON value starting at position i (no leading whitespace)
ParseValue(txt, i) ==
    LET array(j) == IF j <= Len(txt) /\ txt[j] = "]" THEN Done(PyList(<<>>), j + 1)
                    ELSE ParseItems(txt, j, <<>>)
        object(j) == IF j <= Len(txt) /\ txt[j] = "}" THEN Done(PyDict(<<>>), j + 1)
                     ELSE ParseMembers(txt, j, <<>>)
    IN  IF i > Len(txt) THEN Fail
        ELSE IF txt[i] = "\"" THEN ParseString(txt, i + 1, <<>>)
        ELSE IF txt[i] = "[" THEN array(SkipWs(txt, i + 1))
        ELSE IF txt[i] = "{" THEN object(SkipWs(txt, i + 1))
        ELSE IF Matches(txt, i, <<"n", "u", "l", "l">>) THEN Done(PyNone, i + 4)
        ELSE IF Matches(txt, i, <<"t", "r", "u", "e">>) THEN Done(PyBool(TRUE), i + 4)
        ELSE IF Matches(txt, i, <<"f", "a", "l", "s", "e">>) THEN Done(PyBool(FALSE), i + 5)
        ELSE IF txt[i] \in Digits THEN ParseDigits(txt, i, <<>>)
        ELSE Fail

\* json.loads(txt): ok is FALSE where it raises JSONDecodeError (no value,
\* or characters other than whitespace after the value)
JsonLoads(txt) ==
    LET end(r) == IF r.ok /\ SkipWs(txt, r.pos) > Len(txt) THEN [ok |-> TRUE, val |-> r.val]
                  ELSE [ok |-> FALSE, val |-> PyNone]
    IN  end(ParseValue(txt, SkipWs(txt, 1)))

-----------------------------------------------------------------------------
(* rag.py: the Record Loader *)

NonSpecifie == <<"Non spécifié">>
Inconnu == <<"Inconnu">>

\* the indentation the lines of the f-string carry in the source
Pad == "                "

\* repr(x), as str() uses it for the items of a list or a dict
RECURSIVE PyRepr(_)
PyRepr(x) ==
    CASE x.t = "str" -> <<"'">> \o x.v \o <<"'">>
      [] x.t = "int" -> x.v
      [] x.t = "none" -> <<"None">>
      [] x.t = "bool" -> IF x.v = <<"true">> THEN <<"True">> ELSE <<"False">>
      [] x.t = "list" ->
            <<"[">> \o JoinTexts([i \in 1..Len(x.v) |-> PyRepr(x.v[i])], <<",", " ">>) \o <<"]">>
      [] x.t = "tuple" ->
            <<"(">> \o JoinTexts([i \in 1..Len(x.v) |-> PyRepr(x.v[i])], <<",", " ">>) \o <<")">>
      [] x.t = "dict" ->
            <<"{">> \o JoinTexts([i \in 1..Len(x.v) |->
                          PyRepr(x.v[i][1]) \o <<":", " ">> \o PyRepr(x.v[i][2])],
                        <<",", " ">>) \o <<"}">>

\* format(x, ""): what an f-string puts for {x}
PyFormat(x) == IF x.t = "str" THEN x.v ELSE PyRepr(x)

\* sep.join(x): ok is FALSE where Python raises TypeError (x is not iterable,
\* or one of its items is not a str)
StrJoin(sep, x) ==
    LET it == Iterate(x)
    IN  IF it.ok /\ \A i \in 1..Len(it.items) : it.items[i].t = "str"
        THEN [ok |-> TRUE, text |-> JoinTexts([i \in 1..Len(it.items) |-> it.items[i].v], sep)]
        ELSE [ok |-> FALSE, text |-> <<>>]

\* x[0]: ok is FALSE where Python raises (TypeError, KeyError, IndexError)
Index0(x) ==
    IF x.t \in {"list", "tuple"} /\ Len(x.v) > 0 THEN [ok |-> TRUE, val |-> x.v[1]]
    ELSE IF x.t = "str" /\ Len(x.v) > 0 THEN [ok |-> TRUE, val |-> PyStr(<<x.v[1]>>)]
    ELSE [ok |-> FALSE, val |-> PyNone]

\* the f-string of load_texts
text_content(name, birth, gender, country, sub_area, positions) ==
    <<"\n", Pad, "Nom: ">> \o name
    \o <<"\n", Pad, "Naissance: ">> \o birth
    \o <<"\n", Pad, "Genre: ">> \o gender
    \o <<"\n", Pad, "Pays: ">> \o country
    \o <<"\n", Pad, "Région: ">> \o sub_area
    \o <<"\n", Pad, "Postes: ">> \o positions
    \o <<"\n", Pad>>

Raised == [ok |-> FALSE, text |-> <<>>]

\* the statements of the try block of load_texts after json.loads: ok is
\* FALSE where one of them raises, text is the block appended otherwise
format_entry(entry) ==
    LET block(name, birth, positions, country, sub_area, gender) ==
            IF birth.ok /\ positions.ok /\ country.ok /\ sub_area.ok /\ gender.ok
            THEN [ok |-> TRUE,
                  text |-> text_content(PyFormat(name), PyFormat(birth.val), gender.text,
                                        country.text, sub_area.text, positions.text)]
            ELSE Raised
        birth_of(bd) == IF Truthy(bd) THEN Index0(bd)
                        ELSE [ok |-> TRUE, val |-> PyStr(NonSpecifie)]
        fields(name, props) ==
            IF props.t # "dict" THEN Raised
            ELSE block(name,
                       birth_of(DictGet(props, "birthDate", PyNone)),
                       StrJoin(<<";", " ">>, DictGet(props, "position", PyList(<<>>))),
                       StrJoin(<<" ">>, DictGet(props, "country", PyList(<<>>))),
                       StrJoin(<<" ">>, DictGet(props, "subnationalArea", PyList(<<>>))),
                       StrJoin(<<" ">>, DictGet(props, "gender", PyList(<<>>))))
    IN  IF entry.t # "dict" THEN Raised
        ELSE fields(DictGet(entry, "caption_latin", PyStr(Inconnu)),
                    DictGet(entry, "properties", PyDict(<<>>)))

\* the try block of load_texts for one line
format_line(line) ==
    LET loaded(parsed) == IF parsed.ok THEN format_entry(parsed.val) ELSE Raised
    IN  loaded(JsonLoads(line))

\* the for loop of load_texts over the lines from position i on
RECURSIVE load_lines(_, _, _)
load_lines(lines, i, acc) ==
    LET step(r) == IF r.ok THEN Append(acc, r.text) ELSE acc
    IN  IF i > Len(lines) THEN acc
        ELSE load_lines(lines, i + 1, step(format_line(lines[i])))

\* load_texts(json_file): the list of blocks, empty when the file is absent
load_texts(file) == IF ~file.exists THEN <<>> ELSE load_lines(file.lines, 1, <<>>)

-----------------------------------------------------------------------------
(* utils.py: the History Manager *)

EmptyList == PyList(<<>>)

\* load_history(history_file): whatever json.load returns, the empty list
\* when the file is absent or json.load (or the read) raises
load_history(file) ==
    LET loaded(parsed) == IF parsed.ok THEN parsed.val ELSE EmptyList
    IN  IF file.exists THEN loaded(JsonLoads(file.text)) ELSE EmptyList

\* save_history opening the file with "a": the dump is added after what the
\* file held instead of replacing it
save_history_append(history, file) ==
    [exists |-> TRUE, text |-> file.text \o JsonDumps(history, 0)]

\* save_history writing str(history) instead of the JSON dump
save_history_repr(history, file) == [exists |-> TRUE, text |-> PyRepr(history)]

\* save_history(history, history_file): the file after the call
save_history(history, file) == [exists |-> TRUE, text |-> JsonDumps(history, 0)]

-----------------------------------------------------------------------------
(* rag.py: the Vector Index and the Generator *)

\* build_or_load_chroma with its two tests in the other order: a non-empty
\* record set is built even when the directory holds an index
build_or_load_chroma_build_first(txts, dir) ==
    IF Len(txts) > 0
    THEN [path |-> "build", index |-> PyObject(txts),
          dir |-> [state |-> "nonempty", docs |-> txts]]
    ELSE IF dir.state = "nonempty"
    THEN [path |-> "load", index |-> PyObject(dir.docs), dir |-> dir]
    ELSE [path |-> "none", index |-> PyNone, dir |-> dir]

\* build_or_load_chroma building without persist_directory: the directory
\* stays as it was
build_or_load_chroma_no_persist(txts, dir) ==
    IF dir.state = "nonempty"
    THEN [path |-> "load", index |-> PyObject(dir.docs), dir |-> dir]
    ELSE IF Len(txts) > 0
    THEN [path |-> "build", index |-> PyObject(txts), dir |-> dir]
    ELSE [path |-> "none", index |-> PyNone, dir |-> dir]

\* build_or_load_chroma(texts, embeddings, chroma_dir): the branch taken, the
\* index returned (None on the last branch) and the directory afterwards
build_or_load_chroma(txts, dir) ==
    IF dir.state = "nonempty"
    THEN [path |-> "load", index |-> PyObject(dir.docs), dir |-> dir]
    ELSE IF Len(txts) > 0
    THEN [path |-> "build", index |-> PyObject(txts),
          dir |-> [state |-> "nonempty", docs |-> txts]]
    ELSE [path |-> "none", index |-> PyNone, dir |-> dir]

\* initialize_rag_system without the "if not chroma_index or not llm" test
initialize_rag_system_unchecked(dir, file) ==
    LET chain(r) == [chain |-> PyObject(r.index.v),
                     path |-> r.path, docs |-> r.index.v, dir |-> r.dir]
    IN  chain(build_or_load_chroma(load_texts(file), dir))

\* initialize_rag_system(chroma_dir, json_file): the chain (None when the
\* index is None), the branch build_or_load_chroma took, the directory afterwards
initialize_rag_system(dir, file) ==
    LET chain(r) == [chain |-> IF ~Truthy(r.index) THEN PyNone ELSE PyObject(r.index.v),
                     path |-> r.path, docs |-> r.index.v, dir |-> r.dir]
    IN  chain(build_or_load_chroma(load_texts(file), dir))

ErrorMarker == <<"Erreur lors du traitement: ">>

\* generate_rag_response(rag_chain, prompt, chat_history), given what
\* rag_chain.invoke does: it returns a result with an "answer" and, the chain
\* being built with return_source_documents=False, no "source_documents", or
\* it raises an Exception with a message
generate_rag_response(invoke) ==
    IF invoke.raises
    THEN [raised |-> FALSE, answer |-> ErrorMarker \o invoke.text, docs |-> <<>>]
    ELSE [raised |-> FALSE, answer |-> invoke.text, docs |-> <<>>]

-----------------------------------------------------------------------------
(* main.py: one run of the script.  A run works on a record w:              *)
(*   ss       st.session_state           hfile  HISTORY_FILE                *)
(*   cdir     CHROMA_DIR                 builds Chroma.from_texts calls     *)
(*   rag      branch of build_or_load_chroma in this run ("" when not run)  *)
(*            and the documents of the index the chain retrieves from       *)
(*   calls    rag_chain.invoke calls of this run                            *)
(*   call     question, chat_history and outcome of the call of this run    *)
(*   widgets  the buttons rendered so far in this run                       *)
(*   outcome  what the run showed or did last                               *)
(*   stop     "" while the script runs; "return", "rerun" (st.rerun()) or   *)
(*            "exception" (an exception left main) once it has ended        *)

SidebarLimit == 10

NoInit == [path |-> "", docs |-> <<>>]

NoCall == [question |-> <<>>, chat_history |-> <<>>, failed |-> FALSE,
           answer |-> <<>>, docs |-> <<>>]

\* datetime.datetime.now().strftime("%H:%M")
Timestamp == <<"HH:MM">>

\* the keys init_session_state sets, with the value each gets when missing
Defaults(hfile) ==
    [history |-> load_history(hfile),
     current_conversation |-> <<>>,
     processing |-> FALSE,
     transcribed_text |-> <<>>,
     input_reset_counter |-> 0,
     recording |-> FALSE,
     last_retrieved |-> <<>>]

init_session_state(w) ==
    LET fill(d) == [w EXCEPT !.ss = [k \in DOMAIN d |->
                                       IF k \in DOMAIN w.ss THEN w.ss[k] ELSE d[k]]]
    IN  fill(Defaults(w.hfile))

\* the last n items of a sequence: items[-n:]
LastItems(items, n) ==
    IF Len(items) <= n THEN items ELSE SubSeq(items, Len(items) - n + 1, Len(items))

\* the history loop of render_sidebar runs without raising: history[-10:] is
\* taken only of a truthy history, each of its items unpacks into (q, a), and
\* q and a can be sliced and measured
SidebarRenders(history) ==
    LET shown(items) == \A i \in 1..Len(items) :
                            /\ Unpacks2(items[i])
                            /\ Sliceable(Iterate(items[i]).items[1])
                            /\ Sliceable(Iterate(items[i]).items[2])
    IN  \/ ~Truthy(history)
        \/ /\ Sliceable(history)
           /\ shown(LastItems(Iterate(history).items, SidebarLimit))

\* the reset button's branch of render_sidebar
reset_history(w) ==
    [w EXCEPT !.ss = [@ EXCEPT !.history = EmptyList,
                               !.current_conversation = <<>>,
                               !.processing = FALSE,
                               !.transcribed_text = <<>>,
                               !.input_reset_counter = @ + 1,
                               !.last_retrieved = <<>>],
              !.hfile = IF @.exists THEN [exists |-> FALSE, text |-> <<>>] ELSE @,
              !.outcome = "reset",
              !.stop = "rerun"]

render_sidebar(w, button) ==
    IF ~SidebarRenders(w.ss.history)
    THEN [w EXCEPT !.outcome = "exception", !.stop = "exception"]
    ELSE IF button = "reset" THEN reset_history([w EXCEPT !.widgets = @ \cup {"reset"}])
    ELSE [w EXCEPT !.widgets = @ \cup {"reset"}]

\* process_question(): prompt is the value of the text input of the form
process_question(w, prompt) ==
    IF Len(prompt) = 0
    THEN [ok |-> FALSE, w |-> [w EXCEPT !.outcome = "warning"]]
    ELSE [ok |-> TRUE,
          w |-> [w EXCEPT !.ss = [@ EXCEPT
                    !.current_conversation = Append(@, <<"user", prompt, Timestamp>>),
                    !.processing = TRUE,
                    !.input_reset_counter = @ + 1,
                    !.transcribed_text = <<>>,
                    !.last_retrieved = <<>>]]]

\* chat_history built from the newest pair to the oldest
RECURSIVE chat_history_newest_first(_)
chat_history_newest_first(items) ==
    IF Len(items) = 0 THEN <<>>
    ELSE chat_history_newest_first(Tail(items))
         \o <<[type |-> "human", content |-> Iterate(items[1]).items[1]],
              [type |-> "ai", content |-> Iterate(items[1]).items[2]]>>

\* the chat_history handle_response builds: for q, a in history, a
\* HumanMessage(content=q) then an AIMessage(content=a)
RECURSIVE chat_history(_)
chat_history(items) ==
    IF Len(items) = 0 THEN <<>>
    ELSE <<[type |-> "human", content |-> Iterate(items[1]).items[1]],
           [type |-> "ai", content |-> Iterate(items[1]).items[2]]>>
         \o chat_history(Tail(items))

\* handle_response(rag_chain), invoke being what rag_chain.invoke does
handle_response(w, invoke) ==
    LET conv == w.ss.current_conversation
        prompt == conv[Len(conv)][2]
        history == w.ss.history
        loop_ok == /\ Iterate(history).ok
                   /\ \A i \in 1..Len(Iterate(history).items) :
                         Unpacks2(Iterate(history).items[i])
        r == generate_rag_response(invoke)
        called == [w EXCEPT
                    !.calls = @ + 1,
                    !.call = [question |-> prompt,
                              chat_history |-> chat_history(Iterate(history).items),
                              failed |-> invoke.raises, answer |-> r.answer,
                              docs |-> r.docs],
                    !.ss = [@ EXCEPT !.current_conversation =
                                        Append(@, <<"ai", r.answer, Timestamp>>)]]
        appended == PyList(Append(history.v, PyTuple(<<PyStr(prompt), PyStr(r.answer)>>)))
    IN  IF ~loop_ok THEN [w EXCEPT !.outcome = "exception", !.stop = "exception"]
        ELSE IF r.raised
        THEN [w EXCEPT !.calls = @ + 1,
                       !.call = [NoCall EXCEPT !.question = prompt, !.failed = TRUE],
                       !.outcome = "exception", !.stop = "exception"]
        ELSE IF history.t # "list"
        THEN [called EXCEPT !.outcome = "exception", !.stop = "exception"]
        ELSE [called EXCEPT
                !.ss = [@ EXCEPT !.history = appended,
                                 !.last_retrieved = r.docs,
                                 !.processing = FALSE],
                !.hfile = save_history(appended, @),
                !.outcome = "exchange"]

\* main(): input is what the user did to start this run: whether the session
\* is new, the button clicked ("none", "reset", "submit", "voice"), the text of
\* the input, what speech_to_text() returns and what rag_chain.invoke does
main(w0, input) ==
    LET rerun(w) == IF w.stop # "" THEN w ELSE [w EXCEPT !.stop = "rerun"]
        submitted(asked) ==
            IF asked.ok THEN rerun(handle_response(asked.w, input.invoke))
            ELSE [asked.w EXCEPT !.stop = "return"]
        buttons(w) ==
            IF input.button = "voice"
            THEN [w EXCEPT !.ss = [@ EXCEPT !.transcribed_text = input.speech,
                                            !.recording = FALSE],
                           !.outcome = "voice", !.stop = "rerun"]
            ELSE IF input.button = "submit"
            THEN submitted(process_question(w, input.prompt))
            ELSE [w EXCEPT !.outcome = "rendered", !.stop = "return"]
        initialized(w, rag) ==
            IF ~Truthy(rag.chain)
            THEN [w EXCEPT !.cdir = rag.dir,
                           !.rag = [path |-> rag.path, docs |-> rag.docs],
                           !.builds = IF rag.path = "build" THEN @ + 1 ELSE @,
                           !.outcome = "startup_error", !.stop = "return"]
            ELSE buttons([w EXCEPT !.cdir = rag.dir,
                                   !.rag = [path |-> rag.path, docs |-> rag.docs],
                                   !.builds = IF rag.path = "build" THEN @ + 1 ELSE @,
                                   !.widgets = @ \cup {"form"}])
        sidebar(w) == IF w.stop # "" THEN w
                      ELSE initialized(w, initialize_rag_system(w.cdir, w.json))
    IN  sidebar(render_sidebar(init_session_state(w0), input.button))

-----------------------------------------------------------------------------
(* The files the application starts from *)

MaxHistory == 3
MaxCounter == 2

Key(k) == <<"\"", k, "\"", ":", " ">>
Str(x) == <<"\"", x, "\"">>

\* corpus lines: a complete record, records without optional fields, and
\* lines that do not parse or lack the nesting load_texts reads
LineFull ==
    <<"{">> \o Key("caption_latin") \o Str("Ada Martin") \o <<",", " ">>
    \o Key("properties") \o <<"{">>
    \o Key("birthDate") \o <<"[">> \o Str("1970-01-01") \o <<"]", ",", " ">>
    \o Key("position") \o <<"[">> \o Str("Maire") \o <<",", " ">> \o Str("Ministre") \o <<"]", ",", " ">>
    \o Key("country") \o <<"[">> \o Str("fr") \o <<"]", ",", " ">>
    \o Key("subnationalArea") \o <<"[">> \o Str("Bretagne") \o <<"]", ",", " ">>
    \o Key("gender") \o <<"[">> \o Str("female") \o <<"]">>
    \o <<"}", "}", "\n">>
LineBare ==
    <<"{">> \o Key("caption_latin") \o Str("Bob Durand") \o <<",", " ">>
    \o Key("properties") \o <<"{", "}", "}", "\n">>
LineNoProperties == <<"{">> \o Key("caption_latin") \o Str("Émile Roy") \o <<"}", "\n">>
LineEmptyLists ==
    <<"{">> \o Key("properties") \o <<"{">>
    \o Key("birthDate") \o <<"[", "]", ",", " ">>
    \o Key("position") \o <<"[", "]">>
    \o <<"}", "}", "\n">>
LineTruncated == <<"{">> \o Key("caption_latin") \o Str("Ada Martin") \o <<",", "\n">>
LineBlank == <<"\n">>
LineArray == <<"[">> \o Str("Ada Martin") \o <<"]", "\n">>
LinePropertiesList ==
    <<"{">> \o Key("caption_latin") \o Str("Ada Martin") \o <<",", " ">>
    \o Key("properties") \o <<"[">> \o Str("x") \o <<"]", "}", "\n">>
LinePropertiesNull == <<"{">> \o Key("properties") \o <<"n", "u", "l", "l", "}", "\n">>
LinePositionNumber ==
    <<"{">> \o Key("properties") \o <<"{">> \o Key("position") \o <<"[", "1", "]", "}", "}", "\n">>

Absent == [exists |-> FALSE, text |-> <<>>]
File(text) == [exists |-> TRUE, text |-> text]

\* history files: absent, cut short while being written, valid JSON that is
\* no list of pairs, and files save_history wrote
HistoryFiles ==
    { Absent,
      File(<<"[", "\n", " ", " ", "[", "\n">>),
      File(<<"{", "}">>),
      File(<<"n", "u", "l", "l">>),
      File(<<"[", "1", "]">>),
      File(JsonDumps(EmptyList, 0)),
      File(JsonDumps(PyList(<<PyTuple(<<PyStr(<<"Q">>), PyStr(<<"A">>)>>)>>), 0)) }

CorpusFiles ==
    { [exists |-> FALSE, lines |-> <<>>],
      [exists |-> TRUE, lines |-> <<LineTruncated>>],
      [exists |-> TRUE, lines |-> <<LineTruncated, LineFull, LineBare>>] }

IndexDirs ==
    { [state |-> "absent", docs |-> <<>>],
      [state |-> "empty", docs |-> <<>>],
      [state |-> "nonempty", docs |-> <<format_line(LineNoProperties).text>>] }

-----------------------------------------------------------------------------
(* Spec: the sessions of the application *)

Init ==
    /\ session_state = <<>>
    /\ history_file \in HistoryFiles
    /\ json_file \in CorpusFiles
    /\ chroma_dir \in IndexDirs
    /\ rerun_pending = FALSE
    /\ widgets = {}
    /\ run_input = [session |-> "", button |-> "", prompt |-> <<>>]
    /\ run_outcome = ""
    /\ builds = 0
    /\ rag_init = NoInit
    /\ generator_calls = 0
    /\ last_call = NoCall
    /\ pc = "app"
    /\ line_no = 0
    /\ texts = <<>>
    /\ h_saved = EmptyList
    /\ h_loaded = EmptyList

Prompts == {<<>>, <<" ">>, <<"Q">>}
Speech == {<<>>, <<"Q">>}
Invocations == {[raises |-> FALSE, text |-> <<"A">>], [raises |-> TRUE, text |-> <<"timeout">>]}

NoInvoke == [raises |-> FALSE, text |-> <<>>]

\* the state a run leaves
Commit(w, input) ==
    /\ session_state' = w.ss
    /\ history_file' = w.hfile
    /\ chroma_dir' = w.cdir
    /\ builds' = w.builds
    /\ rag_init' = w.rag
    /\ generator_calls' = w.calls
    /\ last_call' = w.call
    /\ widgets' = w.widgets
    /\ run_outcome' = w.outcome
    /\ rerun_pending' = (w.stop = "rerun")
    /\ run_input' = [session |-> input.session, button |-> input.button,
                     prompt |-> input.prompt]
    /\ UNCHANGED <<json_file, pc, line_no, texts, h_saved, h_loaded>>

\* one run of the script on the present state
Run(ss, input) ==
    Commit(main([ss |-> ss, hfile |-> history_file, json |-> json_file,
                 cdir |-> chroma_dir, builds |-> builds, rag |-> NoInit, calls |-> 0,
                 call |-> NoCall, widgets |-> {}, outcome |-> "", stop |-> ""], input),
           input)

Input(session, button, prompt, speech, invoke) ==
    [session |-> session, button |-> button, prompt |-> prompt, speech |-> speech,
     invoke |-> invoke]

Started == DOMAIN session_state # {}

\* a new browser session (or a restart of the server): an empty session_state
NewSession ==
    /\ pc = "app"
    /\ ~rerun_pending
    /\ Run(<<>>, Input("new", "none", <<>>, <<>>, NoInvoke))

\* the run st.rerun() asks for
Rerun ==
    /\ pc = "app"
    /\ rerun_pending
    /\ Run(session_state, Input("same", "none", <<>>, <<>>, NoInvoke))

ClickReset ==
    /\ pc = "app"
    /\ ~rerun_pending
    /\ "reset" \in widgets
    /\ session_state.input_reset_counter < MaxCounter
    /\ Run(session_state, Input("same", "reset", <<>>, <<>>, NoInvoke))

ClickVoice ==
    /\ pc = "app"
    /\ ~rerun_pending
    /\ "form" \in widgets
    /\ \E speech \in Speech : Run(session_state, Input("same", "voice", <<>>, speech, NoInvoke))

Submit ==
    /\ pc = "app"
    /\ ~rerun_pending
    /\ "form" \in widgets
    /\ session_state.input_reset_counter < MaxCounter
    /\ Len(session_state.history.v) < MaxHistory
    /\ \E prompt \in Prompts, invoke \in Invocations :
          Run(session_state, Input("same", "submit", prompt, <<>>, invoke))

Next == NewSession \/ Rerun \/ ClickReset \/ ClickVoice \/ Submit

Spec == Init /\ [][Next]_vars

-----------------------------------------------------------------------------
(* SpecLoader: load_texts, statement by statement, on every corpus of up to *)
(* MaxLines lines                                                           *)

MaxLines == 2

LoaderLines ==
    { LineFull, LineBare, LineNoProperties, LineEmptyLists, LineTruncated, LineBlank,
      LineArray, LinePropertiesList, LinePropertiesNull, LinePositionNumber }

RECURSIVE SeqsUpTo(_, _)
SeqsUpTo(S, n) ==
    IF n = 0 THEN {<<>>}
    ELSE SeqsUpTo(S, n - 1) \cup {Append(q, x) : q \in SeqsUpTo(S, n - 1), x \in S}

LoaderCorpora ==
    {[exists |-> FALSE, lines |-> <<>>]}
    \cup {[exists |-> TRUE, lines |-> ls] : ls \in SeqsUpTo(LoaderLines, MaxLines)}

InitLoader ==
    /\ json_file \in LoaderCorpora
    /\ pc = "load_texts"
    /\ line_no = 0
    /\ texts = <<>>
    /\ session_state = <<>>
    /\ history_file = Absent
    /\ chroma_dir = [state |-> "absent", docs |-> <<>>]
    /\ rerun_pending = FALSE
    /\ widgets = {}
    /\ run_input = [session |-> "", button |-> "", prompt |-> <<>>]
    /\ run_outcome = ""
    /\ builds = 0
    /\ rag_init = NoInit
    /\ generator_calls = 0
    /\ last_call = NoCall
    /\ h_saved = EmptyList
    /\ h_loaded = EmptyList

LoaderOnly == UNCHANGED <<session_state, history_file, json_file, chroma_dir, rerun_pending,
                          widgets, run_input, run_outcome, builds, rag_init,
                          generator_calls, last_call, h_saved, h_loaded>>

\* if not os.path.exists(json_file): return texts
LoaderMissing ==
    /\ pc = "load_texts"
    /\ ~json_file.exists
    /\ pc' = "returned"
    /\ UNCHANGED <<line_no, texts>>
    /\ LoaderOnly

\* with open(json_file, ...) as f:
LoaderOpen ==
    /\ pc = "load_texts"
    /\ json_file.exists
    /\ pc' = "for"
    /\ UNCHANGED <<line_no, texts>>
    /\ LoaderOnly

\* one pass of the for loop whose try block reaches texts.append
LoaderAppend ==
    /\ pc = "for"
    /\ line_no < Len(json_file.lines)
    /\ format_line(json_file.lines[line_no + 1]).ok
    /\ texts' = Append(texts, format_line(json_file.lines[line_no + 1]).text)
    /\ line_no' = line_no + 1
    /\ UNCHANGED pc
    /\ LoaderOnly

\* LoaderSkip with the except clause letting the exception out of load_texts
LoaderSkip_raises ==
    /\ pc = "for"
    /\ line_no < Len(json_file.lines)
    /\ ~format_line(json_file.lines[line_no + 1]).ok
    /\ pc' = "raised"
    /\ UNCHANGED <<line_no, texts>>
    /\ LoaderOnly

\* one pass of the for loop whose try block raises: except: continue
LoaderSkip ==
    /\ pc = "for"
    /\ line_no < Len(json_file.lines)
    /\ ~format_line(json_file.lines[line_no + 1]).ok
    /\ line_no' = line_no + 1
    /\ UNCHANGED <<pc, texts>>
    /\ LoaderOnly

\* the file is exhausted: return texts
LoaderReturn ==
    /\ pc = "for"
    /\ line_no = Len(json_file.lines)
    /\ pc' = "returned"
    /\ UNCHANGED <<line_no, texts>>
    /\ LoaderOnly

NextLoader == LoaderMissing \/ LoaderOpen \/ LoaderAppend \/ LoaderSkip \/ LoaderReturn

SpecLoader == InitLoader /\ [][NextLoader]_vars

-----------------------------------------------------------------------------
(* Claims about the Record Loader, checked under SpecLoader *)

\* the lines load_texts has consumed so far
Consumed == SubSeq(json_file.lines, 1, line_no)

LineParses(line) == format_line(line).ok

\* a malformed line: no JSON, or JSON without the nesting load_texts reads
\* (an object whose "properties", when present, is an object)
Malformed(line) ==
    LET nested(parsed) ==
            \/ ~parsed.ok
            \/ parsed.val.t # "dict"
            \/ DictGet(parsed.val, "properties", PyDict(<<>>)).t # "dict"
    IN  nested(JsonLoads(line))

OptionalKeys == {"birthDate", "position", "country", "subnationalArea", "gender"}
OptionalLabels == {"Naissance: ", "Genre: ", "Pays: ", "Région: ", "Postes: "}

\* a well-formed record: each optional key is absent or holds a list of strings
WellFormedRecord(line) ==
    LET listed(x) == x.t = "list" /\ \A i \in 1..Len(x.v) : x.v[i].t = "str"
        fields(props) == \A k \in OptionalKeys :
                            \/ DictGet(props, k, PyNone) = PyNone
                            \/ listed(DictGet(props, k, PyNone))
        record(parsed) == fields(DictGet(parsed.val, "properties", PyDict(<<>>)))
    IN  ~Malformed(line) /\ record(JsonLoads(line))

\* a record with none of the optional fields
NoOptionalFields(line) ==
    LET fields(props) == \A k \in OptionalKeys : DictGet(props, k, PyNone) = PyNone
        record(parsed) == fields(DictGet(parsed.val, "properties", PyDict(<<>>)))
    IN  ~Malformed(line) /\ record(JsonLoads(line))

Count(lines, Test(_)) == Cardinality({i \in 1..Len(lines) : Test(lines[i])})

\* the characters of a block from position i up to the end of the line
RECURSIVE UpToNewline(_, _)
UpToNewline(text, i) ==
    IF i > Len(text) \/ text[i] = "\n" THEN <<>>
    ELSE <<text[i]>> \o UpToNewline(text, i + 1)

\* what a block shows after a label
FieldOf(text, label) ==
    UpToNewline(text, 1 + CHOOSE i \in 1..Len(text) : text[i] = label)

\* C1: load_texts never raises on malformed lines; the list it returns holds
\* exactly the blocks of the lines that parsed, in source order: none for a
\* malformed line, one for each well-formed record, and every line of the
\* corpus is visited whatever came before it.
TheoremC1 ==
    LET parsed == SelectSeq(Consumed, LineParses)
    IN  /\ pc \in {"load_texts", "for", "returned"}
        /\ texts = [i \in 1..Len(parsed) |-> format_line(parsed[i]).text]
        /\ Len(texts) <= line_no - Count(Consumed, Malformed)
        /\ Len(texts) >= Count(Consumed, WellFormedRecord)
        /\ pc = "returned" => line_no = Len(json_file.lines)

\* C1 witness: a corpus whose malformed first line is followed by a
\* well-formed record has been loaded to the end, and holds that record's block
WitnessC1 ==
    /\ pc = "returned"
    /\ json_file.lines = <<LineTruncated, LineFull>>
    /\ texts = <<format_line(LineFull).text>>

\* C2 (as claimed): the block of a record with no optional fields shows
\* "Non spécifié" after each of Naissance, Genre, Pays, Région and Postes.
CounterC2 ==
    LET parsed == SelectSeq(Consumed, LineParses)
    IN  \A i \in 1..Len(texts) :
            NoOptionalFields(parsed[i]) =>
                \A label \in OptionalLabels : FieldOf(texts[i], label) = NonSpecifie

-----------------------------------------------------------------------------
(* Claims about the sessions, checked under Spec *)

Blank(text) == \A i \in 1..Len(text) : text[i] \in Whitespace

\* a value with every tuple read as a list, as json writes and reads it
RECURSIVE AsJson(_)
AsJson(x) ==
    IF x.t \in {"list", "tuple"} THEN PyList([i \in 1..Len(x.v) |-> AsJson(x.v[i])])
    ELSE x

\* the file holds a history: a JSON list of [question, answer] string pairs
WellFormedHistory(file) ==
    LET pairs(parsed) ==
            /\ parsed.ok
            /\ parsed.val.t = "list"
            /\ \A i \in 1..Len(parsed.val.v) :
                  /\ parsed.val.v[i].t = "list"
                  /\ Len(parsed.val.v[i].v) = 2
                  /\ parsed.val.v[i].v[1].t = "str"
                  /\ parsed.val.v[i].v[2].t = "str"
    IN  file.exists /\ pairs(JsonLoads(file.text))

\* the (question, answer) pair the last run's exchange is about
Exchanged == PyTuple(<<PyStr(run_input.prompt), PyStr(last_call.answer)>>)

\* the on-disk history is the in-memory one
OnDisk(file, history) ==
    file.exists /\ JsonLoads(file.text) = [ok |-> TRUE, val |-> AsJson(history)]

\* C3 (as claimed): a submitted question that is empty or only whitespace is
\* rejected: a warning, no call of the generator, and the conversation, the
\* history, the history file, processing and input_reset_counter as before.
CounterC3 ==
    [][(run_input'.button = "submit" /\ Blank(run_input'.prompt)) =>
          /\ run_outcome' = "warning"
          /\ generator_calls' = 0
          /\ session_state'.current_conversation = session_state.current_conversation
          /\ session_state'.history = session_state.history
          /\ session_state'.processing = session_state.processing
          /\ session_state'.input_reset_counter = session_state.input_reset_counter
          /\ history_file' = history_file]_vars

\* C4 (as claimed): when rag_chain.invoke raises, generate_rag_response
\* returns the error marker and no documents, nothing is raised to the caller,
\* and handle_response completes the exchange: the error answer is appended to
\* the conversation and to the history, the history is saved, processing is
\* FALSE again and the script reruns, ready for the next question.  (Stated
\* for the questions that are not blank, which C3 is about.)
CounterC4 ==
    [][(generator_calls' = 1 /\ last_call'.failed /\ ~Blank(run_input'.prompt)) =>
          /\ SubSeq(last_call'.answer, 1, Len(ErrorMarker)) = ErrorMarker
          /\ last_call'.docs = <<>>
          /\ run_outcome' = "exchange"
          /\ session_state'.current_conversation =
                session_state.current_conversation
                \o <<<<"user", run_input'.prompt, Timestamp>>,
                     <<"ai", last_call'.answer, Timestamp>>>>
          /\ session_state'.history =
                PyList(Append(session_state.history.v, Exchanged'))
          /\ OnDisk(history_file', session_state'.history)
          /\ session_state'.processing = FALSE
          /\ rerun_pending']_vars

\* C5: an initialization that finds the index directory non-empty takes the
\* load path and does not build, whatever the record set; an initialization
\* takes one path at most: it builds exactly when it reports the build path,
\* and the load path serves the directory's index.
TheoremC5 ==
    [][/\ chroma_dir.state = "nonempty" =>
             /\ builds' = builds
             /\ chroma_dir' = chroma_dir
             /\ rag_init'.path \in {"", "load"}
       /\ builds' \in {builds, builds + 1}
       /\ rag_init'.path = "build" <=> builds' = builds + 1
       /\ rag_init'.path = "load" => rag_init'.docs = chroma_dir.docs]_vars

\* C5 witness: an initialization loaded the index although the corpus holds
\* records a build could have used
WitnessC5 ==
    /\ rag_init.path = "load"
    /\ builds = 0
    /\ Len(load_texts(json_file)) > 0

\* C6: from an absent or empty index directory and a non-empty record set, the
\* first initialization builds the index from the records and persists it;
\* once built, no initialization builds again, each takes the load path, and
\* the index served is the one built.
TheoremC6 ==
    [][/\ (chroma_dir.state # "nonempty" /\ Len(load_texts(json_file)) > 0
           /\ rag_init'.path # "") =>
             /\ rag_init' = [path |-> "build", docs |-> load_texts(json_file)]
             /\ builds' = builds + 1
             /\ chroma_dir' = [state |-> "nonempty", docs |-> load_texts(json_file)]
       /\ builds >= 1 =>
             /\ builds' = builds
             /\ chroma_dir' = chroma_dir
             /\ rag_init'.path # "" =>
                   rag_init' = [path |-> "load", docs |-> load_texts(json_file)]
       /\ builds' <= 1]_vars

\* C6 witness: after the one build, a later initialization loaded the index
WitnessC6 ==
    /\ builds = 1
    /\ rag_init = [path |-> "load", docs |-> load_texts(json_file)]
    /\ run_input.session = "new"

\* no persisted non-empty index and no records
Unavailable == chroma_dir.state # "nonempty" /\ Len(load_texts(json_file)) = 0

\* C7 (as claimed): with no non-empty index and no records, an initialization
\* returns None, main reports the startup error and returns; no question is
\* accepted, no generation is attempted, and the conversation and the history
\* of the session are not modified.  (The last part is stated for the sessions
\* whose history file is well formed, which C9 is not about.)
CounterC7 ==
    [][Unavailable =>
          /\ generator_calls' = 0
          /\ "form" \notin widgets'
          /\ rag_init'.path # "" =>
                (rag_init'.path = "none" /\ run_outcome' = "startup_error")
          /\ (run_input'.session = "same" /\ WellFormedHistory(history_file)) =>
                /\ session_state'.current_conversation = session_state.current_conversation
                /\ session_state'.history = session_state.history]_vars

\* C7 (amended): as claimed, except that the reset button of the sidebar, which
\* main handles before the initialization, still empties the conversation and
\* the history; no other run of the session modifies them.
TheoremC7 ==
    [][Unavailable =>
          /\ generator_calls' = 0
          /\ "form" \notin widgets'
          /\ rag_init'.path # "" =>
                (rag_init'.path = "none" /\ run_outcome' = "startup_error")
          /\ (run_input'.session = "same" /\ run_input'.button # "reset") =>
                /\ session_state'.current_conversation = session_state.current_conversation
                /\ session_state'.history = session_state.history
                /\ history_file' = history_file
          /\ run_input'.button = "reset" =>
                /\ session_state'.current_conversation = <<>>
                /\ session_state'.history = EmptyList
                /\ rag_init'.path = ""]_vars

\* C7 witness: the corpus file does not exist, the directory holds no index,
\* and main has reported the startup error in a session with a history
WitnessC7 ==
    /\ Unavailable
    /\ ~json_file.exists
    /\ rag_init.path = "none"
    /\ run_outcome = "startup_error"
    /\ "form" \notin widgets
    /\ Len(session_state.history.v) > 0

\* C8: a completed exchange leaves the history as it was with the exchange's
\* (question, answer) pair added at the end, and the history file holding
\* exactly that history.
TheoremC8 ==
    [][run_outcome' = "exchange" =>
          /\ session_state.history.t = "list"
          /\ session_state'.history = PyList(Append(session_state.history.v, Exchanged'))
          /\ OnDisk(history_file', session_state'.history)]_vars

\* C8 witness: a second exchange has completed, after the first one's pair
WitnessC8 ==
    /\ run_outcome = "exchange"
    /\ Len(session_state.history.v) = 2
    /\ session_state.history.v[2] = Exchanged
    /\ OnDisk(history_file, session_state.history)

\* C9 (as claimed): a session that starts on a history file that is absent,
\* unreadable or corrupt starts with the empty history, and no run ends in an
\* exception, neither the run that loads the history nor a later one that
\* iterates it.
CounterC9 ==
    [][/\ (run_input'.session = "new" /\ ~WellFormedHistory(history_file)) =>
             session_state'.history = EmptyList
       /\ run_outcome' # "exception"]_vars

\* every user entry of the conversation is immediately followed by its ai entry
Paired(conv) ==
    /\ Len(conv) % 2 = 0
    /\ \A i \in 1..Len(conv) : conv[i][1] = (IF i % 2 = 1 THEN "user" ELSE "ai")

\* the run about to happen accepts a question that is not blank:
\* process_question returns True (the blank questions are C3's subject)
Accepts ==
    /\ run_input'.button = "submit"
    /\ ~Blank(run_input'.prompt)
    /\ session_state'.input_reset_counter = session_state.input_reset_counter + 1

\* C11 (as claimed): a run that accepts a question invokes the generator
\* exactly once, also when the invocation fails, appends the user entry and
\* the ai entry with the answer to the conversation, and appends the pair to
\* the history and saves it; and whenever a question can be submitted,
\* processing is FALSE and every user entry of the conversation is followed
\* by its ai entry.
CounterC11 ==
    [][/\ Accepts =>
             /\ generator_calls' = 1
             /\ session_state'.current_conversation =
                   session_state.current_conversation
                   \o << <<"user", run_input'.prompt, Timestamp>>,
                         <<"ai", last_call'.answer, Timestamp>> >>
             /\ session_state'.history.v = Append(session_state.history.v, Exchanged')
             /\ OnDisk(history_file', session_state'.history)
       /\ ("form" \in widgets /\ ~rerun_pending) =>
             /\ session_state.processing = FALSE
             /\ Paired(session_state.current_conversation)]_vars

\* the history is a list of (question, answer) pairs of strings
HistoryOfPairs(history) ==
    /\ history.t = "list"
    /\ \A i \in 1..Len(history.v) :
          /\ history.v[i].t \in {"list", "tuple"}
          /\ Len(history.v[i].v) = 2
          /\ history.v[i].v[1].t = "str"
          /\ history.v[i].v[2].t = "str"

\* C12: a run that invokes the generator on a history of n pairs hands it the
\* question asked and a chat_history of 2n entries, entry 2i-1 a human message
\* with the i-th question and entry 2i an ai message with the i-th answer, in
\* history order; the pair of the question being asked is not part of it: it
\* is appended to the history after the call, as the pair n+1.
TheoremC12 ==
    [][(generator_calls' = 1 /\ HistoryOfPairs(session_state.history)) =>
          LET prior == session_state.history.v
              handed == last_call'.chat_history
          IN  /\ last_call'.question = run_input'.prompt
              /\ Len(handed) = 2 * Len(prior)
              /\ \A i \in 1..Len(prior) :
                    /\ handed[2 * i - 1] = [type |-> "human", content |-> prior[i].v[1]]
                    /\ handed[2 * i] = [type |-> "ai", content |-> prior[i].v[2]]
              /\ session_state'.history.v = Append(prior, Exchanged')
              /\ Len(handed) = 2 * (Len(session_state'.history.v) - 1)]_vars

\* C12 witness: the generator was invoked on a history of two pairs with
\* different answers, and the exchange made the third pair
WitnessC12 ==
    /\ generator_calls = 1
    /\ run_outcome = "exchange"
    /\ Len(last_call.chat_history) = 4
    /\ last_call.chat_history[2].content # last_call.chat_history[4].content
    /\ Len(session_state.history.v) = 3
    /\ session_state.history.v[3] = Exchanged

-----------------------------------------------------------------------------
(* SpecHistory: save_history then load_history on the same file, for every  *)
(* history of up to MaxPairs pairs of the sample texts                      *)

MaxPairs == 2

\* texts with a non-ASCII letter, the characters json escapes, and the
\* characters of an escape sequence
SampleTexts ==
    { <<>>,
      <<"É", "m", "i", "l", "e">>,
      <<"\"", "\\">>,
      <<"\\", "n", "\n">> }

SamplePairs == {PyTuple(<<PyStr(q), PyStr(a)>>) : q \in SampleTexts, a \in SampleTexts}

InitHistory ==
    /\ h_saved \in {PyList(pairs) : pairs \in SeqsUpTo(SamplePairs, MaxPairs)}
    /\ history_file \in {Absent, File(JsonDumps(PyList(<<PyList(<<PyStr(<<"Q">>), PyStr(<<"A">>)>>)>>), 0))}
    /\ h_loaded = PyNone
    /\ pc = "save_history"
    /\ json_file = [exists |-> FALSE, lines |-> <<>>]
    /\ line_no = 0
    /\ texts = <<>>
    /\ session_state = <<>>
    /\ chroma_dir = [state |-> "absent", docs |-> <<>>]
    /\ rerun_pending = FALSE
    /\ widgets = {}
    /\ run_input = [session |-> "", button |-> "", prompt |-> <<>>]
    /\ run_outcome = ""
    /\ builds = 0
    /\ rag_init = NoInit
    /\ generator_calls = 0
    /\ last_call = NoCall

HistoryOnly == UNCHANGED <<session_state, json_file, chroma_dir, rerun_pending, widgets,
                           run_input, run_outcome, builds, rag_init, generator_calls,
                           last_call, line_no, texts>>

SaveHistory ==
    /\ pc = "save_history"
    /\ history_file' = save_history(h_saved, history_file)
    /\ pc' = "load_history"
    /\ UNCHANGED <<h_saved, h_loaded>>
    /\ HistoryOnly

LoadHistory ==
    /\ pc = "load_history"
    /\ h_loaded' = load_history(history_file)
    /\ pc' = "loaded"
    /\ UNCHANGED <<h_saved, history_file>>
    /\ HistoryOnly

NextHistory == SaveHistory \/ LoadHistory

SpecHistory == InitHistory /\ [][NextHistory]_vars

\* C10: save_history followed by load_history on the same file yields the
\* pairs saved: as many, in the same order, each question and each answer
\* character for character.
TheoremC10 ==
    pc = "loaded" =>
        /\ h_loaded.t = "list"
        /\ Len(h_loaded.v) = Len(h_saved.v)
        /\ \A i \in 1..Len(h_saved.v) :
              /\ h_loaded.v[i].t = "list"
              /\ h_loaded.v[i].v = h_saved.v[i].v

\* C10 witness: two pairs with "Émile", a quote, a backslash and a newline
\* have been saved over an older file and loaded back
WitnessC10 ==
    /\ pc = "loaded"
    /\ h_saved.v = <<PyTuple(<<PyStr(<<"É", "m", "i", "l", "e">>), PyStr(<<"\"", "\\">>)>>),
                     PyTuple(<<PyStr(<<"\\", "n", "\n">>), PyStr(<<>>)>>)>>
    /\ h_loaded.v[1].v[1] = PyStr(<<"É", "m", "i", "l", "e">>)
    /\ h_loaded.v[2].v[1] = PyStr(<<"\\", "n", "\n">>)

====
